---------------------------- MODULE Spec2Model ----------------------------
(***************************************************************************)
(* A model of pyrbbh: the BLAST job builder (pyrbbh/blast.py), the Job     *)
(* dependency graph (pyrbbh/jobs.py), the depth scheduler and the          *)
(* multiprocessing executor (pyrbbh/mp.py) and the driver                  *)
(* PyRBBH.__mp_run_rbbh (pyrbbh.py).                                       *)
(*                                                                         *)
(* A path is a sequence of strings: the directory, then the parts of the   *)
(* file name that dots separate ("in/a.fasta" is <<"in", "a", "fasta">>).  *)
(* A command line is a sequence of words, each word a sequence of strings  *)
(* (an option is a one-string word, a path is a word of several strings).  *)
(***************************************************************************)
EXTENDS Integers, Sequences, FiniteSets, TLC

\* ------------------------------------------------------------------ bounds

\* Longest list of input files of one run.
MaxFiles == 2
\* Worker processes of one multiprocessing.Pool() (the machine's CPU count).
NumWorkers == 2
\* Most Job objects of a hand-built graph.
MaxJobs == 3
\* Most add_dependency calls made on a hand-built graph.
MaxLinks == 3
\* Most calls of mp_run_cmdset an arbitrary caller makes in one process.
MaxCalls == 2
\* Longest list of input files passed to make_blast_jobs by a caller that
\* does not run the jobs.
MaxBuildFiles == 3
\* Most Job objects of a graph built in one step for create_cmdsets.
MaxOrderJobs == 3

\* Exit values subprocess.call may return: 0, a failure status, and the
\* negated number of the signal that killed the shell (SIGHUP is 1).
ExitValues == {-1, 0, 1}

\* --------------------------------------------------------------- config.py

BLASTDB_DEFAULT == "makeblastdb"
BLASTP_DEFAULT == "blastp"

\* The files io.get_fasta_files may list in the input directory, the output
\* directory and the job prefix of a run.
Files == { <<"in", "a", "fasta">>, <<"in", "a", "faa">>, <<"in", "b", "fasta">> }
OutDir == "out"
JobPrefix == "PyRBBH"

\* ---------------------------------------------------------------- os.path

\* os.path.split(path)[-1]: the path without its directory.
split_tail(path) == Tail(path)

\* os.path.splitext(name)[0]: the name without its last extension.
splitext_stem(name) ==
    IF Len(name) > 1 THEN SubSeq(name, 1, Len(name) - 1) ELSE name

\* os.path.join(dir, name)
join(dir, name) == <<dir>> \o name

\* ---------------------------------------------------------------- jobs.py

\* Job.__init__: a job with no dependencies and no children.
Job(name, command) ==
    [name |-> name, command |-> command, dependencies |-> <<>>,
     children |-> <<>>, submitted |-> FALSE]

\* Job.add_dependency, on an arena G of jobs: G[a].add_dependency(G[b]).
add_dependency(G, a, b) ==
    LET G1 == [G EXCEPT ![a].dependencies = Append(@, b)]
    IN  [G1 EXCEPT ![b].children = Append(@, a)]

\* list.remove(x): the list without the first occurrence of x.
RECURSIVE list_remove(_, _)
list_remove(s, x) ==
    IF s = <<>> THEN <<>>
    ELSE IF Head(s) = x THEN Tail(s)
    ELSE <<Head(s)>> \o list_remove(Tail(s), x)

\* A variant of remove_dependency that leaves the children list alone.
remove_dependency_one_sided(G, a, b) ==
    [G EXCEPT ![a].dependencies = list_remove(@, b)]

\* Job.remove_dependency, on an arena G of jobs: G[a].remove_dependency(G[b]).
remove_dependency(G, a, b) ==
    LET G1 == [G EXCEPT ![b].children = list_remove(@, a)]
    IN  [G1 EXCEPT ![a].dependencies = list_remove(@, b)]

\* --------------------------------------------------------------- blast.py

\* The filestem of an input file, as both builders compute it.
filestem(infile) == splitext_stem(split_tail(infile))

\* construct_makeblastdb_cmd: the command line and the filestem.
construct_makeblastdb_cmd(infile, outdir, blastdb_exe) ==
    LET filename == split_tail(infile)
        stem     == splitext_stem(filename)
        outfname == join(outdir, filename)
    IN  [cmd |-> << <<blastdb_exe>>, <<"-dbtype">>, <<"prot">>, <<"-in">>,
                    infile, <<"-title">>, stem, <<"-out">>, outfname >>,
         stem |-> stem]

\* construct_blastp_cmd: the command line of one query.
construct_blastp_cmd(qfile, dbname, outdir, blastp_exe) ==
    LET qstem  == splitext_stem(split_tail(qfile))
        dbstem == splitext_stem(split_tail(dbname))
        prefix == join(outdir, qstem \o <<"_vs_">> \o dbstem)
    IN  << <<blastp_exe>>, <<"-out">>, prefix \o <<"xml">>, <<"-query">>,
           qfile, <<"-db">>, dbname, <<"-outfmt">>, <<"5">> >>

\* The keys of dbjobdict in insertion order: each filestem once, at the
\* place of its first occurrence in infiles.
RECURSIVE dict_keys(_, _)
dict_keys(infiles, seen) ==
    IF infiles = <<>> THEN <<>>
    ELSE LET s == filestem(Head(infiles))
         IN  IF s \in seen THEN dict_keys(Tail(infiles), seen)
             ELSE <<s>> \o dict_keys(Tail(infiles), seen \cup {s})

\* The place in infiles (from 1; enumerate's idx is one less) of the file
\* whose job dbjobdict holds under a filestem: a later file with the same
\* stem overwrites.
dict_last(infiles, stem) ==
    CHOOSE i \in 1..Len(infiles) :
        /\ filestem(infiles[i]) = stem
        /\ \A k \in (i + 1)..Len(infiles) : filestem(infiles[k]) # stem

\* make_blastdb_jobs: the dictionary as the sequence of its (key, job)
\* items in insertion order.
make_blastdb_jobs(infiles, outdir, blastdb_exe, jobprefix) ==
    LET keys == dict_keys(infiles, {})
    IN  [k \in 1..Len(keys) |->
            LET i == dict_last(infiles, keys[k])
                c == construct_makeblastdb_cmd(infiles[i], outdir, blastdb_exe)
            IN  [key |-> keys[k],
                 job |-> Job([prefix |-> jobprefix, kind |-> "db",
                              num |-> i - 1, dir |-> ""], c.cmd)]]

\* The pairs (idx, idx2) the nested loops of make_blastp_jobs visit, in
\* the order they visit them: infile1 at idx, infile2 in infiles[idx+1:].
RECURSIVE file_pairs(_, _)

\* A variant of file_pairs whose inner loop starts at infile1 itself
\* (infiles[idx:]).
file_pairs_from_self(i, n) ==
    IF i > n THEN <<>>
    ELSE [k \in 1..(n - i + 1) |-> <<i, i + k - 1>>] \o file_pairs(i + 1, n)

\* A variant of file_pairs whose inner loop runs from the last file back.
file_pairs_backwards(i, n) ==
    IF i > n THEN <<>>
    ELSE [k \in 1..(n - i) |-> <<i, n - k + 1>>] \o file_pairs(i + 1, n)

file_pairs(i, n) ==
    IF i > n THEN <<>>
    ELSE [k \in 1..(n - i) |-> <<i, i + k>>] \o file_pairs(i + 1, n)

\* make_blastp_jobs: the query jobs in joblist order, each with the
\* filestem that keys the database job it is made to depend on.
make_blastp_jobs(infiles, outdir, blastp_exe, jobprefix) ==
    LET pairs == file_pairs(1, Len(infiles))
        one(q) ==
            LET jobnum  == (q + 1) \div 2
                infile1 == infiles[pairs[jobnum][1]]
                infile2 == infiles[pairs[jobnum][2]]
                fstem1  == filestem(infile1)
                fstem2  == filestem(infile2)
                dbname1 == join(outdir, fstem1)
                dbname2 == join(outdir, fstem2)
            IN  IF q % 2 = 1
                THEN [job |-> Job([prefix |-> jobprefix, kind |-> "query",
                                   num |-> jobnum, dir |-> "fwd"],
                                  construct_blastp_cmd(infile1, dbname2,
                                                       outdir, blastp_exe)),
                      dep |-> fstem2]
                ELSE [job |-> Job([prefix |-> jobprefix, kind |-> "query",
                                   num |-> jobnum, dir |-> "rev"],
                                  construct_blastp_cmd(infile2, dbname1,
                                                       outdir, blastp_exe)),
                      dep |-> fstem1]
    IN  [q \in 1..(2 * Len(pairs)) |-> one(q)]

\* The add_dependency calls of make_blastp_jobs, applied in joblist order
\* to the arena G: links[k] is <<query job, database job>>.
RECURSIVE link_jobs(_, _)
link_jobs(G, links) ==
    IF links = <<>> THEN G
    ELSE link_jobs(add_dependency(G, Head(links)[1], Head(links)[2]),
                   Tail(links))

\* make_blast_jobs: list(dbjobs.values()) + queryjobs, as an arena in
\* which a job is its place in the returned list.
make_blast_jobs(infiles, outdir, blastp_exe, blastdb_exe, jobprefix) ==
    LET dbjobs    == make_blastdb_jobs(infiles, outdir, blastdb_exe, jobprefix)
        queryjobs == make_blastp_jobs(infiles, outdir, blastp_exe, jobprefix)
        ndb       == Len(dbjobs)
        dbplace(stem) == CHOOSE k \in 1..ndb : dbjobs[k].key = stem
        arena     == [k \in 1..ndb |-> dbjobs[k].job]
                     \o [q \in 1..Len(queryjobs) |-> queryjobs[q].job]
        links     == [q \in 1..Len(queryjobs) |->
                         <<ndb + q, dbplace(queryjobs[q].dep)>>]
    IN  link_jobs(arena, links)

\* ------------------------------------------------------------------ mp.py

\* __populate_jobsets: adds the job's command to the set at its depth and
\* recurses into each child at depth + 1 (jobsets[depth] of the code is
\* jobsets[depth + 1] here, sequences counting from 1).
RECURSIVE populate_jobsets(_, _, _, _)
RECURSIVE populate_children(_, _, _, _)

\* A variant of child_depth that keeps a child at its parent's depth.
child_depth_same(depth) == depth

\* The depth __populate_jobsets passes on for a job's children.
child_depth(depth) == depth + 1

populate_jobsets(G, job, jobsets, depth) ==
    LET js1 == IF Len(jobsets) < depth + 1 THEN Append(jobsets, {})
               ELSE jobsets
        js2 == [js1 EXCEPT ![depth + 1] = @ \cup {G[job].command}]
    IN  IF Len(G[job].children) = 0 THEN js2
        ELSE populate_children(G, G[job].children, js2, child_depth(depth))

populate_children(G, children, jobsets, depth) ==
    IF children = <<>> THEN jobsets
    ELSE populate_children(G, Tail(children),
                           populate_jobsets(G, Head(children), jobsets, depth),
                           depth)

\* The loop of create_cmdsets over the jobs without dependencies.
RECURSIVE populate_roots(_, _, _)

\* A variant of populate_roots that returns after the first job without
\* dependencies.
populate_roots_first(G, roots, jobsets) ==
    IF roots = <<>> THEN jobsets
    ELSE populate_jobsets(G, Head(roots), jobsets, 0)

populate_roots(G, roots, jobsets) ==
    IF roots = <<>> THEN jobsets
    ELSE populate_roots(G, Tail(roots),
                        populate_jobsets(G, Head(roots), jobsets, 0))

\* create_cmdsets on the list joblist of jobs of the arena G: the jobs
\* without dependencies are taken in the order of the list.
create_cmdsets_from(G, joblist) ==
    LET roots == SelectSeq(joblist, LAMBDA j : Len(G[j].dependencies) = 0)
    IN  populate_roots(G, roots, <<>>)

\* The list of all the jobs of an arena, in the order they were made.
job_list(G) == [k \in 1..Len(G) |-> k]

\* create_cmdsets on the list of all the jobs in the order they were made.
create_cmdsets(jobgraph) == create_cmdsets_from(jobgraph, job_list(jobgraph))


\* A variant of __status_callback that stores val over the sum.
status_callback_overwrite(cum, val) == val

\* __status_callback: the new value of CUMRETVAL (CUMRETVAL += val).
status_callback(cum, val) == cum + val

\* ------------------------------------------------------------------ state

VARIABLES
    scheduler,   \* self._args.scheduler: 'mp' or 'SGE'
    outdir,      \* the output directory: "absent", "present" (it was there
                 \* before the run) or "created" (the run made it)
    infiles,     \* self._infiles: the list of input files
    joblist,     \* the list of jobs passed to create_cmdsets, each job as
                 \* its place in the arena
    lastcall,    \* history: the latest call on the graph under construction
                 \* (op), its jobs (a, b) and the arena before it (before);
                 \* op is "addremove", and before the arena before the
                 \* add_dependency, for a remove_dependency that comes next
                 \* after an add_dependency of the same jobs
    jobs,        \* the job graph: the arena of Job objects
    pc,          \* where the main thread is
    cmdsets,     \* the list of command sets (Spec, SpecSched: the result of
                 \* create_cmdsets; SpecCalls: the cmdsets passed so far)
    idx,         \* the index, from 0, of the cmdset being run
    todo,        \* commands of the cmdset that apply_async has yet to take
    taskq,       \* the pool's task queue: the commands no worker has taken
                 \* yet (the order workers take them in is left open)
    running,     \* commands a worker process is running
    resultq,     \* the pool's result queue: how many of each exit value
                 \* wait for the callback (the order the result handler
                 \* takes them in is left open)
    handler,     \* the pool's result-handler thread: <<>> when idle, else
                 \* <<val, the CUMRETVAL it loaded>> inside __status_callback
    CUMRETVAL,   \* the module global of mp.py
    cumretval,   \* the value mp_run_cmdset last returned
    exitcode,    \* the status sys.exit was called with (-1: not called)
    dispatched,  \* history: <<idx, command>> passed to apply_async
    started,     \* history: <<idx, command>> a worker started
    returned,    \* history: <<idx, command>> whose subprocess.call returned
    joined,      \* history: the idx of each pool that was closed and joined
    stats        \* history, one record for each call of mp_run_cmdset:
                 \* CUMRETVAL at the call (cum0), and the sum (sum) and the
                 \* number of nonzero ones (failed) of the exit values of
                 \* the call's commands so far

vars == <<scheduler, outdir, infiles, joblist, lastcall, jobs, pc, cmdsets,
          idx, todo, taskq, running, resultq, handler, CUMRETVAL, cumretval,
          exitcode, dispatched, started, returned, joined, stats>>

poolvars == <<todo, taskq, running, resultq, handler, dispatched, started,
              returned, joined, stats>>

\* No call was made on the graph yet.
NoCall == [op |-> "none", a |-> 0, b |-> 0, before |-> <<>>]

\* The empty result queue.
NoResults == [val \in ExitValues |-> 0]

\* What every specification starts from: nothing built, no pool, and the
\* module global CUMRETVAL = 0 (mp.py line 16).
InitCommon ==
    /\ joblist = <<>>
    /\ lastcall = NoCall
    /\ jobs = <<>>
    /\ cmdsets = <<>>
    /\ idx = 0
    /\ todo = {}
    /\ taskq = {}
    /\ running = {}
    /\ resultq = NoResults
    /\ handler = <<>>
    /\ CUMRETVAL = 0
    /\ cumretval = 0
    /\ exitcode = -1
    /\ dispatched = {}
    /\ started = {}
    /\ returned = {}
    /\ joined = {}
    /\ stats = <<>>

\* ------------------------------------------------- mp.mp_run_cmdset, steps

\* The call mp_run_cmdset(cmdset): the main thread is about to iterate
\* over cmdset.
EnterRunCmdset(cmdset) ==
    /\ pc' = "dispatch"
    /\ todo' = cmdset
    /\ stats' = Append(stats, [cum0 |-> CUMRETVAL, sum |-> 0, failed |-> 0])

\* The list comprehension's next apply_async: a set is iterated in no
\* particular order.
ApplyAsync ==
    /\ pc = "dispatch"
    /\ \E c \in todo :
        /\ todo' = todo \ {c}
        /\ taskq' = taskq \cup {c}
        /\ dispatched' = dispatched \cup {<<idx, c>>}
    /\ UNCHANGED <<scheduler, outdir, lastcall>>
    /\ UNCHANGED <<infiles, joblist, jobs, pc, cmdsets, idx, running, resultq,
                   handler, CUMRETVAL, cumretval, exitcode, started, returned,
                   joined, stats>>

\* pool.close(), after the last apply_async.
PoolClose ==
    /\ pc = "dispatch"
    /\ todo = {}
    /\ pc' = "join"
    /\ UNCHANGED <<scheduler, outdir, lastcall>>
    /\ UNCHANGED <<infiles, joblist, jobs, cmdsets, idx, todo, taskq, running,
                   resultq, handler, CUMRETVAL, cumretval, exitcode,
                   dispatched, started, returned, joined, stats>>

\* A free worker process takes a task and calls subprocess.call.
WorkerStart ==
    /\ Cardinality(running) < NumWorkers
    /\ \E c \in taskq :
        /\ running' = running \cup {c}
        /\ taskq' = taskq \ {c}
        /\ started' = started \cup {<<idx, c>>}
    /\ UNCHANGED <<scheduler, outdir, lastcall>>
    /\ UNCHANGED <<infiles, joblist, jobs, pc, cmdsets, idx, todo, resultq,
                   handler, CUMRETVAL, cumretval, exitcode, dispatched,
                   returned, joined, stats>>

\* A variant of WorkerReturn in which the worker puts a command that
\* exited nonzero back on the task queue, to be run again.
WorkerReturnRetry ==
    \E c \in running, val \in ExitValues :
        /\ running' = running \ {c}
        /\ taskq' = IF val # 0 THEN taskq \cup {c} ELSE taskq
        /\ resultq' = [resultq EXCEPT ![val] = @ + 1]
        /\ returned' = returned \cup {<<idx, c>>}
        /\ stats' = [stats EXCEPT
                        ![idx + 1].sum = @ + val,
                        ![idx + 1].failed = @ + (IF val # 0 THEN 1 ELSE 0)]
        /\ UNCHANGED <<scheduler, outdir, lastcall>>
        /\ UNCHANGED <<infiles, joblist, jobs, pc, cmdsets, idx, todo,
                       handler, CUMRETVAL, cumretval, exitcode, dispatched,
                       started, joined>>

\* subprocess.call returns the child's exit value, which the worker puts
\* on the result queue.
WorkerReturn ==
    \E c \in running, val \in ExitValues :
        /\ running' = running \ {c}
        /\ resultq' = [resultq EXCEPT ![val] = @ + 1]
        /\ returned' = returned \cup {<<idx, c>>}
        /\ stats' = [stats EXCEPT
                        ![idx + 1].sum = @ + val,
                        ![idx + 1].failed = @ + (IF val # 0 THEN 1 ELSE 0)]
        /\ UNCHANGED <<scheduler, outdir, lastcall>>
        /\ UNCHANGED <<infiles, joblist, jobs, pc, cmdsets, idx, todo, taskq,
                       handler, CUMRETVAL, cumretval, exitcode, dispatched,
                       started, joined>>

\* The result-handler thread takes a result and enters __status_callback:
\* it loads CUMRETVAL.
CallbackLoad ==
    /\ handler = <<>>
    /\ \E val \in ExitValues :
        /\ resultq[val] > 0
        /\ handler' = <<val, CUMRETVAL>>
        /\ resultq' = [resultq EXCEPT ![val] = @ - 1]
    /\ UNCHANGED <<scheduler, outdir, lastcall>>
    /\ UNCHANGED <<infiles, joblist, jobs, pc, cmdsets, idx, todo, taskq,
                   running, CUMRETVAL, cumretval, exitcode, dispatched,
                   started, returned, joined, stats>>

\* __status_callback stores the sum and returns.
CallbackStore ==
    /\ handler # <<>>
    /\ CUMRETVAL' = status_callback(handler[2], handler[1])
    /\ handler' = <<>>
    /\ UNCHANGED <<scheduler, outdir, lastcall>>
    /\ UNCHANGED <<infiles, joblist, jobs, pc, cmdsets, idx, todo, taskq,
                   running, resultq, cumretval, exitcode, dispatched, started,
                   returned, joined, stats>>

\* A variant of pool_finished that waits for the task queue to drain
\* only, not for the commands taken from it.
pool_finished_early == taskq = {}

\* A variant of pool_finished that also holds once a command of the call
\* has exited nonzero, as if the pool were terminated on a failure.
pool_finished_or_failed ==
    \/ /\ taskq = {}
       /\ running = {}
       /\ resultq = NoResults
       /\ handler = <<>>
    \/ /\ stats # <<>>
       /\ stats[Len(stats)].failed > 0

\* What pool.join() waits for: the workers have run every task and the
\* result handler has handled every result.
pool_finished ==
    /\ taskq = {}
    /\ running = {}
    /\ resultq = NoResults
    /\ handler = <<>>

\* pool.join() returns and mp_run_cmdset returns CUMRETVAL.
PoolJoin ==
    /\ pc = "join"
    /\ pool_finished
    /\ cumretval' = CUMRETVAL
    /\ joined' = joined \cup {idx}
    /\ pc' = "returned"
    /\ UNCHANGED <<scheduler, outdir, lastcall>>
    /\ UNCHANGED <<infiles, joblist, jobs, cmdsets, idx, todo, taskq, running,
                   resultq, handler, CUMRETVAL, exitcode, dispatched, started,
                   returned, stats>>

PoolNext ==
    \/ ApplyAsync
    \/ PoolClose
    \/ WorkerStart
    \/ WorkerReturn
    \/ CallbackLoad
    \/ CallbackStore
    \/ PoolJoin

\* ------------------------------------------------ pyrbbh.py: the rbbh run

\* The lists get_fasta_files may return: distinct files, in any order.
FileLists ==
    { l \in UNION { [1..n -> Files] : n \in 0..MaxFiles } :
        \A i, k \in 1..Len(l) : i # k => l[i] # l[k] }

\* A run with the mp scheduler whose __validate_paths made the output
\* directory and whose __get_input_files has listed the input files.
Init ==
    /\ InitCommon
    /\ scheduler = "mp"
    /\ outdir = "created"
    /\ infiles \in FileLists
    /\ pc = "make_jobs"

\* PyRBBH.__make_rbbh_jobs
MakeRbbhJobs ==
    /\ pc = "make_jobs"
    /\ jobs' = make_blast_jobs(infiles, OutDir, BLASTP_DEFAULT,
                               BLASTDB_DEFAULT, JobPrefix)
    /\ pc' = "despatch"
    /\ UNCHANGED <<scheduler, outdir, lastcall>>
    /\ UNCHANGED <<infiles, joblist, cmdsets, idx, CUMRETVAL, cumretval,
                   exitcode>>
    /\ UNCHANGED poolvars

\* rbbh: despatch[self._args.scheduler]() with the scheduler 'mp' calls
\* __mp_run_rbbh.
DespatchMp ==
    /\ pc = "despatch"
    /\ scheduler = "mp"
    /\ pc' = "create_cmdsets"
    /\ UNCHANGED <<scheduler, outdir, lastcall>>
    /\ UNCHANGED <<infiles, joblist, jobs, cmdsets, idx, CUMRETVAL, cumretval,
                   exitcode>>
    /\ UNCHANGED poolvars

\* A variant of CreateCmdsets that flags every job it has scheduled as
\* submitted.
CreateCmdsetsSubmit ==
    /\ pc = "create_cmdsets"
    /\ joblist' = job_list(jobs)
    /\ cmdsets' = create_cmdsets_from(jobs, joblist')
    /\ jobs' = [j \in 1..Len(jobs) |-> [jobs[j] EXCEPT !.submitted = TRUE]]
    /\ idx' = 0
    /\ pc' = "loop"
    /\ UNCHANGED <<scheduler, outdir, lastcall>>
    /\ UNCHANGED <<infiles, CUMRETVAL, cumretval, exitcode>>
    /\ UNCHANGED poolvars

\* PyRBBH.__mp_run_rbbh: cmdsets = mp.create_cmdsets(self._jobs, ...)
CreateCmdsets ==
    /\ pc = "create_cmdsets"
    /\ joblist' = job_list(jobs)
    /\ cmdsets' = create_cmdsets_from(jobs, joblist')
    /\ idx' = 0
    /\ pc' = "loop"
    /\ UNCHANGED <<scheduler, outdir, lastcall>>
    /\ UNCHANGED <<infiles, jobs, CUMRETVAL, cumretval, exitcode>>
    /\ UNCHANGED poolvars

\* The head of the loop over enumerate(cmdsets): the call of mp_run_cmdset
\* on the next cmdset, or the end of the run.
LoopNext ==
    /\ pc = "loop"
    /\ IF idx < Len(cmdsets)
       THEN EnterRunCmdset(cmdsets[idx + 1])
       ELSE /\ pc' = "done"
            /\ UNCHANGED <<todo, stats>>
    /\ UNCHANGED <<scheduler, outdir, lastcall>>
    /\ UNCHANGED <<infiles, joblist, jobs, cmdsets, idx, taskq, running,
                   resultq, handler, CUMRETVAL, cumretval, exitcode,
                   dispatched, started, returned, joined>>

\* A variant of run_failed that takes only a positive value for a failure.
run_failed_positive(ret) == ret > 0

\* The test "if cumretval:" of __mp_run_rbbh.
run_failed(ret) == ret # 0

\* if cumretval: log an error and sys.exit(1); else go on with the loop.
CheckRetval ==
    /\ pc = "returned"
    /\ \/ /\ run_failed(cumretval)
          /\ exitcode' = 1
          /\ pc' = "exited"
          /\ idx' = idx
       \/ /\ ~run_failed(cumretval)
          /\ exitcode' = exitcode
          /\ pc' = "loop"
          /\ idx' = idx + 1
    /\ UNCHANGED <<scheduler, outdir, lastcall>>
    /\ UNCHANGED <<infiles, joblist, jobs, cmdsets, CUMRETVAL, cumretval>>
    /\ UNCHANGED poolvars

Next ==
    \/ MakeRbbhJobs
    \/ DespatchMp
    \/ CreateCmdsets
    \/ LoopNext
    \/ PoolNext
    \/ CheckRetval

Spec == Init /\ [][Next]_vars

\* The steps of the main thread, of which one at most is enabled.
MainThread ==
    \/ MakeRbbhJobs
    \/ DespatchMp
    \/ CreateCmdsets
    \/ LoopNext
    \/ ApplyAsync
    \/ PoolClose
    \/ PoolJoin
    \/ CheckRetval

\* The steps of the pool's result-handler thread.
ResultHandler ==
    \/ CallbackLoad
    \/ CallbackStore

\* The run under a fair scheduler: the main thread, the result-handler
\* thread and a free worker with a task to take each get to take their
\* next step. Nothing makes a child process exit: WorkerReturn is left
\* without fairness.
SpecLive ==
    /\ Init
    /\ [][Next]_vars
    /\ WF_vars(MainThread)
    /\ WF_vars(ResultHandler)
    /\ WF_vars(WorkerStart)

\* ------------------------------------- pyrbbh.py: rbbh from its first step

\* The schedulers the --scheduler argument accepts (choices=['mp', 'SGE']).
Schedulers == {"mp", "SGE"}

\* After parse_args: any accepted scheduler, the output directory there
\* or not, nothing listed or built yet.
InitRbbh ==
    /\ InitCommon
    /\ scheduler \in Schedulers
    /\ outdir \in {"absent", "present"}
    /\ infiles = <<>>
    /\ pc = "validate_paths"

\* PyRBBH.__validate_paths: sys.exit(1) when the input directory is not
\* one, when the output directory is there and --force was not given, or
\* when os.makedirs fails; else the output directory is there on return.
ValidatePaths ==
    /\ pc = "validate_paths"
    /\ \E indir_ok, force, makedirs_ok \in BOOLEAN :
        \/ /\ ~indir_ok
           /\ exitcode' = 1
           /\ pc' = "rejected"
           /\ outdir' = outdir
        \/ /\ indir_ok
           /\ outdir = "present"
           /\ ~force
           /\ exitcode' = 1
           /\ pc' = "rejected"
           /\ outdir' = outdir
        \/ /\ indir_ok
           /\ outdir = "present"
           /\ force
           /\ exitcode' = exitcode
           /\ pc' = "get_input_files"
           /\ outdir' = outdir
        \/ /\ indir_ok
           /\ outdir = "absent"
           /\ makedirs_ok
           /\ exitcode' = exitcode
           /\ pc' = "get_input_files"
           /\ outdir' = "created"
        \/ /\ indir_ok
           /\ outdir = "absent"
           /\ ~makedirs_ok
           /\ exitcode' = 1
           /\ pc' = "rejected"
           /\ outdir' = outdir
    /\ UNCHANGED <<scheduler, lastcall, infiles, joblist, jobs, cmdsets, idx,
                   CUMRETVAL, cumretval>>
    /\ UNCHANGED poolvars

\* PyRBBH.__get_input_files
GetInputFiles ==
    /\ pc = "get_input_files"
    /\ infiles' \in FileLists
    /\ pc' = "make_jobs"
    /\ UNCHANGED <<scheduler, outdir, lastcall>>
    /\ UNCHANGED <<joblist, jobs, cmdsets, idx, CUMRETVAL, cumretval,
                   exitcode>>
    /\ UNCHANGED poolvars

\* rbbh: despatch[self._args.scheduler]() with the scheduler 'SGE' calls
\* __sge_run_rbbh, which raises NotImplementedError.
DespatchSge ==
    /\ pc = "despatch"
    /\ scheduler = "SGE"
    /\ pc' = "raised"
    /\ UNCHANGED <<scheduler, outdir, lastcall>>
    /\ UNCHANGED <<infiles, joblist, jobs, cmdsets, idx, CUMRETVAL, cumretval,
                   exitcode>>
    /\ UNCHANGED poolvars

NextRbbh ==
    \/ ValidatePaths
    \/ GetInputFiles
    \/ DespatchSge
    \/ Next

SpecRbbh == InitRbbh /\ [][NextRbbh]_vars

\* ------------------- make_blast_jobs and create_cmdsets, without the pool

\* The paths a caller may pass to make_blast_jobs: those of Files, one
\* more filestem, and a file name with a dot inside its filestem.
BuildFiles ==
    Files \cup { <<"in", "c", "fasta">>, <<"in", "a", "b", "fasta">> }

\* The lists a caller may pass: any paths, in any order, repeats included.
BuildLists == UNION { [1..n -> BuildFiles] : n \in 0..MaxBuildFiles }

InitBuild ==
    /\ InitCommon
    /\ scheduler = "mp"
    /\ outdir = "created"
    /\ infiles \in BuildLists
    /\ pc = "make_jobs"

\* The run up to the loop over the cmdsets: no command is run.
NextBuild ==
    \/ MakeRbbhJobs
    \/ DespatchMp
    \/ CreateCmdsets

SpecBuild == InitBuild /\ [][NextBuild]_vars

\* ------------------------------- create_cmdsets on a hand-built job graph

\* The command lines of hand-built jobs and of hand-made cmdsets.
Commands == { << <<"c1">> >>, << <<"c2">> >>, << <<"c3">> >> }

\* The elements of a list.
Range(s) == { s[i] : i \in 1..Len(s) }

\* Whether job x depends on job y, directly or through other jobs.
RECURSIVE depends_on(_, _, _)
depends_on(G, x, y) ==
    \E d \in Range(G[x].dependencies) : d = y \/ depends_on(G, d, y)

\* The number of dependency references in the graph.
RECURSIVE links_upto(_, _)
links_upto(G, n) ==
    IF n = 0 THEN 0 ELSE Len(G[n].dependencies) + links_upto(G, n - 1)

InitSched ==
    /\ InitCommon
    /\ scheduler = "mp"
    /\ outdir = "absent"
    /\ infiles = <<>>
    /\ pc = "construct"

\* jobs.Job(name, command): one more job, under a name no job has.
NewJob ==
    /\ pc = "construct"
    /\ Len(jobs) < MaxJobs
    /\ \E c \in Commands :
        jobs' = Append(jobs, Job([prefix |-> "job", kind |-> "",
                                  num |-> Len(jobs), dir |-> ""], c))
    /\ lastcall' = [op |-> "new", a |-> Len(jobs) + 1, b |-> 0,
                    before |-> jobs]
    /\ UNCHANGED <<scheduler, outdir>>
    /\ UNCHANGED <<infiles, joblist, pc, cmdsets, idx, CUMRETVAL, cumretval,
                   exitcode>>
    /\ UNCHANGED poolvars

\* a.add_dependency(b), for jobs a and b that leave the graph acyclic.
AddDependency ==
    /\ pc = "construct"
    /\ links_upto(jobs, Len(jobs)) < MaxLinks
    /\ \E a, b \in 1..Len(jobs) :
        /\ a # b
        /\ ~depends_on(jobs, b, a)
        /\ jobs' = add_dependency(jobs, a, b)
        /\ lastcall' = [op |-> "add", a |-> a, b |-> b, before |-> jobs]
    /\ UNCHANGED <<scheduler, outdir>>
    /\ UNCHANGED <<infiles, joblist, pc, cmdsets, idx, CUMRETVAL, cumretval,
                   exitcode>>
    /\ UNCHANGED poolvars

\* a.remove_dependency(b), for a job b in a's dependency list (list.remove
\* raises ValueError for any other).
RemoveDependency ==
    /\ pc = "construct"
    /\ \E a, b \in 1..Len(jobs) :
        /\ b \in Range(jobs[a].dependencies)
        /\ jobs' = remove_dependency(jobs, a, b)
        /\ lastcall' =
            IF lastcall.op = "add" /\ lastcall.a = a /\ lastcall.b = b
            THEN [lastcall EXCEPT !.op = "addremove"]
            ELSE [op |-> "remove", a |-> a, b |-> b, before |-> jobs]
    /\ UNCHANGED <<scheduler, outdir>>
    /\ UNCHANGED <<infiles, joblist, pc, cmdsets, idx, CUMRETVAL, cumretval,
                   exitcode>>
    /\ UNCHANGED poolvars

\* The orders a caller may list n jobs in.
job_orders(n) ==
    { l \in [1..n -> 1..n] : \A i, k \in 1..n : i # k => l[i] # l[k] }

\* mp.create_cmdsets(joblist), on the jobs made so far listed in any order.
ScheduleGraph ==
    /\ pc = "construct"
    /\ joblist' \in job_orders(Len(jobs))
    /\ cmdsets' = create_cmdsets_from(jobs, joblist')
    /\ pc' = "scheduled"
    /\ UNCHANGED <<scheduler, outdir, lastcall>>
    /\ UNCHANGED <<infiles, jobs, idx, CUMRETVAL, cumretval, exitcode>>
    /\ UNCHANGED poolvars

NextSched ==
    \/ NewJob
    \/ AddDependency
    \/ RemoveDependency
    \/ ScheduleGraph

SpecSched == InitSched /\ [][NextSched]_vars

\* ------------------ create_cmdsets on any small graph, listed in any order

\* The add_dependency calls that give each job a the dependencies deps[a],
\* in the order of a and, for one a, of the job depended on.
RECURSIVE dep_links(_, _, _)
dep_links(deps, a, b) ==
    IF a > Len(deps) THEN <<>>
    ELSE IF b >= a THEN dep_links(deps, a + 1, 1)
    ELSE (IF b \in deps[a] THEN << <<a, b>> >> ELSE <<>>)
         \o dep_links(deps, a, b + 1)

\* The graphs of n jobs, their commands taken from the set commands, in
\* which a job depends on any of the jobs made before it: Job(...) n
\* times, then the add_dependency calls.
graphs_with(n, commands) ==
    { link_jobs([k \in 1..n |->
                    Job([prefix |-> "job", kind |-> "", num |-> k - 1,
                         dir |-> ""], cmds[k])],
                dep_links(deps, 1, 1)) :
        cmds \in [1..n -> commands],
        deps \in { d \in [1..n -> SUBSET (1..n)] :
                      \A j \in 1..n : d[j] \subseteq 1..(j - 1) } }

\* Those graphs with any of the commands of Commands.
graphs_of(n) == graphs_with(n, Commands)

InitOrder ==
    /\ InitCommon
    /\ scheduler = "mp"
    /\ outdir = "absent"
    /\ infiles = <<>>
    /\ pc = "start"

\* A caller makes its jobs and their dependencies.
ConstructGraph ==
    /\ pc = "start"
    /\ \E n \in 0..MaxOrderJobs : jobs' \in graphs_of(n)
    /\ pc' = "construct"
    /\ UNCHANGED <<scheduler, outdir, lastcall>>
    /\ UNCHANGED <<infiles, joblist, cmdsets, idx, CUMRETVAL, cumretval,
                   exitcode>>
    /\ UNCHANGED poolvars

NextOrder ==
    \/ ConstructGraph
    \/ ScheduleGraph

SpecOrder == InitOrder /\ [][NextOrder]_vars

\* ---------- add_dependency and remove_dependency calls on any small graph

\* A caller makes its jobs, all with one command, and their dependencies.
ConstructLinkGraph ==
    /\ pc = "start"
    /\ \E n \in 0..MaxOrderJobs :
        jobs' \in graphs_with(n, { << <<"c1">> >> })
    /\ pc' = "construct"
    /\ UNCHANGED <<scheduler, outdir, lastcall>>
    /\ UNCHANGED <<infiles, joblist, cmdsets, idx, CUMRETVAL, cumretval,
                   exitcode>>
    /\ UNCHANGED poolvars

\* A caller makes a graph, then adds and removes dependencies in any order.
NextLinks ==
    \/ ConstructLinkGraph
    \/ AddDependency
    \/ RemoveDependency

SpecLinks == InitOrder /\ [][NextLinks]_vars

\* ---------------------------- mp_run_cmdset called by an arbitrary caller

InitCalls ==
    /\ InitCommon
    /\ scheduler = "mp"
    /\ outdir = "absent"
    /\ infiles = <<>>
    /\ pc = "caller"

\* The caller's next call, mp_run_cmdset(cmdset), on any set of commands.
CallerCall ==
    /\ pc = "caller"
    /\ idx < MaxCalls
    /\ \E cmdset \in SUBSET Commands :
        /\ cmdsets' = Append(cmdsets, cmdset)
        /\ EnterRunCmdset(cmdset)
    /\ UNCHANGED <<scheduler, outdir, lastcall>>
    /\ UNCHANGED <<infiles, joblist, jobs, idx, taskq, running, resultq,
                   handler, CUMRETVAL, cumretval, exitcode, dispatched,
                   started, returned, joined>>

\* The caller takes the returned value and goes on, whatever it is.
CallerResume ==
    /\ pc = "returned"
    /\ pc' = "caller"
    /\ idx' = idx + 1
    /\ UNCHANGED <<scheduler, outdir, lastcall>>
    /\ UNCHANGED <<infiles, joblist, jobs, cmdsets, CUMRETVAL, cumretval,
                   exitcode>>
    /\ UNCHANGED poolvars

NextCalls ==
    \/ CallerCall
    \/ PoolNext
    \/ CallerResume

SpecCalls == InitCalls /\ [][NextCalls]_vars

\* ----------------------------------------------------------------- claims

\* Whether a worker has started command c, in any pool.
CmdStarted(c) == \E p \in started : p[2] = c

\* Whether the subprocess.call of command c has returned, in any pool.
CmdReturned(c) == \E p \in returned : p[2] = c

\* The level of a job: 0 without dependencies, else one more than the
\* greatest level among its dependencies.
RECURSIVE level(_, _)
level(G, j) ==
    IF G[j].dependencies = <<>> THEN 0
    ELSE LET ls == { level(G, d) : d \in Range(G[j].dependencies) }
         IN  1 + CHOOSE m \in ls : \A l \in ls : l <= m

\* The batches (from 0) that hold the command of job j.
BatchesOf(j) == { k \in 0..(Len(cmdsets) - 1) : jobs[j].command \in cmdsets[k + 1] }

\* No two jobs of the graph have the same command line.
DistinctCommands ==
    \A i, j \in 1..Len(jobs) : i # j => jobs[i].command # jobs[j].command

\* C1: in a run on a graph built by make_blast_jobs, whenever the command
\* of a job has been started, the command of every job in its dependency
\* list has returned.
C1_DepsReturnedBeforeStart ==
    \A j \in 1..Len(jobs) :
        CmdStarted(jobs[j].command) =>
            \A d \in Range(jobs[j].dependencies) : CmdReturned(jobs[d].command)

\* A query job's command has been started.
C1_Witness ==
    \E j \in 1..Len(jobs) :
        /\ jobs[j].dependencies # <<>>
        /\ CmdStarted(jobs[j].command)

\* C2: commands are dispatched from the cmdset the loop is at and from no
\* later one, and once a command of a cmdset has been dispatched, every
\* earlier cmdset has been dispatched in full, each of its commands has
\* returned and its pool has been closed and joined.
C2_Barrier ==
    \A p \in dispatched :
        /\ p[1] <= idx
        /\ p[2] \in cmdsets[p[1] + 1]
        /\ \A k \in 0..(p[1] - 1) :
            /\ k \in joined
            /\ \A c \in cmdsets[k + 1] :
                <<k, c>> \in dispatched /\ <<k, c>> \in returned

\* A command of the second cmdset has been dispatched.
C2_Witness == \E p \in dispatched : p[1] = 1

\* C3: once create_cmdsets has run on an acyclic graph (of jobs with
\* distinct commands), the command of each job is in batch k exactly when
\* k is the job's level.
C3_BatchIsLevel ==
    (pc = "scheduled" /\ DistinctCommands) =>
        \A j \in 1..Len(jobs) : BatchesOf(j) = {level(jobs, j)}

\* C4: once create_cmdsets has run on an acyclic graph (of jobs with
\* distinct commands), each job is in exactly one batch.
C4_ExactlyOneBatch ==
    (pc = "scheduled" /\ DistinctCommands) =>
        \A j \in 1..Len(jobs) : Cardinality(BatchesOf(j)) = 1

\* C5: once create_cmdsets has run on a graph in which no job has more
\* than one dependency, each batch holds as many invocations as there are
\* jobs at its level.
C5_OneInvocationPerJob ==
    (pc = "scheduled"
        /\ \A j \in 1..Len(jobs) : Len(jobs[j].dependencies) <= 1) =>
        \A k \in 0..(Len(cmdsets) - 1) :
            Cardinality(cmdsets[k + 1]) =
                Cardinality({ j \in 1..Len(jobs) : level(jobs, j) = k })

\* C6: once a pool has been joined in which some command returned a
\* nonzero exit value, the run is returning from that pool or has exited,
\* and no command of a later cmdset has been dispatched.
C6_FailFast ==
    \A k \in joined :
        stats[k + 1].failed > 0 =>
            /\ pc \in {"returned", "exited"}
            /\ \A p \in dispatched : p[1] <= k

\* C7: when mp_run_cmdset returns, every command of its cmdset has
\* returned and CUMRETVAL has grown, since the call, by exactly the sum of
\* their exit values.
C7_NoLostUpdate ==
    pc = "returned" =>
        /\ \A c \in cmdsets[idx + 1] : <<idx, c>> \in returned
        /\ CUMRETVAL = stats[idx + 1].cum0 + stats[idx + 1].sum

\* A call has returned in which two commands exited nonzero, made when
\* CUMRETVAL was no longer 0.
C7_Witness ==
    /\ pc = "returned"
    /\ stats[idx + 1].failed = 2
    /\ stats[idx + 1].cum0 # 0

\* C8: each call of mp_run_cmdset returns the sum of the exit values of
\* the commands of its own cmdset.
C8_ReturnsOwnSum ==
    pc = "returned" => cumretval = stats[idx + 1].sum

C10_JobCounts ==
    pc # "make_jobs" =>
        /\ Cardinality({ j \in 1..Len(jobs) : jobs[j].name.kind = "db" })
            = Len(infiles)
        /\ Cardinality({ j \in 1..Len(jobs) : jobs[j].name.kind = "query" })
            = Len(infiles) * (Len(infiles) - 1)

\* ------------------------------------------- claims on make_blast_jobs

\* Whether job j is a database (index) job, or a query (comparison) job.
IsDb(j) == jobs[j].name.kind = "db"
IsQuery(j) == jobs[j].name.kind = "query"

\* The number of the pair (i, j), i < j, of places in a list of n files,
\* the pairs counted from 1 with i outermost and j innermost.
pair_rank(i, j, n) == (i - 1) * n - (i * (i - 1)) \div 2 + (j - i)

\* The place in infiles of the file a query job searches against: the
\* second file of its pair for the forward job, the first for the reverse.
Searched(q) ==
    CHOOSE s \in 1..Len(infiles) :
        \E i, j \in 1..Len(infiles) :
            /\ i < j
            /\ pair_rank(i, j, Len(infiles)) = jobs[q].name.num
            /\ s = IF jobs[q].name.dir = "fwd" THEN j ELSE i

\* Whether two places of infiles hold files of one filestem.
StemsCollide ==
    \E i, k \in 1..Len(infiles) :
        i # k /\ filestem(infiles[i]) = filestem(infiles[k])

\* C11: every query job has exactly one dependency, and it is the database
\* job made from the file the query searches against (the other file of
\* its pair), not the one made from the file it queries with.
C11_DependsOnSearchedIndex ==
    \A q \in 1..Len(jobs) :
        IsQuery(q) =>
            /\ Len(jobs[q].dependencies) = 1
            /\ IsDb(jobs[q].dependencies[1])
            /\ jobs[jobs[q].dependencies[1]].name.num = Searched(q) - 1
            /\ jobs[jobs[q].dependencies[1]].command[5] = infiles[Searched(q)]

\* C12: when two input files have the same filestem, no job is made and
\* the run goes no further than the job building.
C12_CollisionRejected ==
    StemsCollide => (jobs = <<>> /\ pc = "make_jobs")

\* C14: the database job a query job depends on writes its database to
\* <outdir>/<filestem>, which is the path after -db in the query's command.
C14_IndexOutIsQueryDb ==
    \A q \in 1..Len(jobs) :
        IsQuery(q) =>
            \A d \in Range(jobs[q].dependencies) :
                /\ jobs[d].command[9]
                    = join(OutDir, filestem(jobs[d].command[5]))
                /\ jobs[d].command[9] = jobs[q].command[7]

\* C13: a run with the SGE scheduler dispatches no command to the pool,
\* makes no output directory and builds no job.
C13_SgeFailsBeforeSideEffects ==
    scheduler = "SGE" =>
        /\ dispatched = {}
        /\ outdir # "created"
        /\ jobs = <<>>

\* The commands of the database jobs, and of the query jobs, of the graph.
DbCommands == { jobs[j].command : j \in { k \in 1..Len(jobs) : IsDb(k) } }
QueryCommands ==
    { jobs[j].command : j \in { k \in 1..Len(jobs) : IsQuery(k) } }

\* C15: for n >= 2 input files with distinct filestems, create_cmdsets on
\* the graph of make_blast_jobs gives two cmdsets: the first is the n
\* database commands, the second the n * (n - 1) query commands.
C15_TwoBatches ==
    (pc = "loop" /\ Len(infiles) >= 2 /\ ~StemsCollide) =>
        /\ Len(cmdsets) = 2
        /\ cmdsets[1] = DbCommands
        /\ Cardinality(cmdsets[1]) = Len(infiles)
        /\ \A i \in 1..Len(infiles) :
            \E c \in cmdsets[1] :
                c[1] = <<BLASTDB_DEFAULT>> /\ c[5] = infiles[i]
        /\ cmdsets[2] = QueryCommands
        /\ Cardinality(cmdsets[2]) = Len(infiles) * (Len(infiles) - 1)
        /\ \A c \in cmdsets[2] : c[1] = <<BLASTP_DEFAULT>>

\* Three files with three filestems were scheduled: 3 and 6 commands.
C15_Witness ==
    /\ pc = "loop"
    /\ Len(infiles) = 3
    /\ ~StemsCollide
    /\ Cardinality(cmdsets[1]) = 3
    /\ Cardinality(cmdsets[2]) = 6

\* C18: for every pair of places i < j of the input list there are a query
\* job <prefix>_query_<r>_fwd that queries with file i against the
\* database of file j and a job <prefix>_query_<r>_rev that queries with
\* file j against the database of file i, r being the number of the pair,
\* counted from 1 with i outermost; there is no other query job, the query
\* jobs are listed by number with forward before reverse, and no two jobs
\* of the graph have the same name.
C18_QueryNamesNumbered ==
    pc # "make_jobs" =>
        LET n == Len(infiles)
            name(r, d) == [prefix |-> JobPrefix, kind |-> "query",
                           num |-> r, dir |-> d]
        IN  /\ \A i, j \in 1..n :
                i < j =>
                    \E f, r \in 1..Len(jobs) :
                        /\ jobs[f].name = name(pair_rank(i, j, n), "fwd")
                        /\ jobs[f].command[5] = infiles[i]
                        /\ jobs[f].command[7]
                            = join(OutDir, filestem(infiles[j]))
                        /\ jobs[r].name = name(pair_rank(i, j, n), "rev")
                        /\ jobs[r].command[5] = infiles[j]
                        /\ jobs[r].command[7]
                            = join(OutDir, filestem(infiles[i]))
                        /\ r = f + 1
            /\ Cardinality({ q \in 1..Len(jobs) : IsQuery(q) }) = n * (n - 1)
            /\ \A a, b \in 1..Len(jobs) :
                (IsQuery(a) /\ IsQuery(b) /\ a < b) =>
                    jobs[a].name.num <= jobs[b].name.num
            /\ \A a, b \in 1..Len(jobs) :
                a # b => jobs[a].name # jobs[b].name

\* A graph was built from three files: its pairs are numbered 1, 2, 3.
C18_Witness ==
    /\ pc # "make_jobs"
    /\ Len(infiles) = 3
    /\ \E q \in 1..Len(jobs) :
        /\ jobs[q].name = [prefix |-> JobPrefix, kind |-> "query",
                           num |-> 3, dir |-> "rev"]
        /\ jobs[q].command[5] = infiles[3]

\* ---------------------------------------------- claims on create_cmdsets

\* C16: the cmdsets create_cmdsets made from the job list it was passed,
\* the jobs in any order, are the cmdsets it makes from the same jobs
\* listed in the order they were made.
C16_OrderIndependent ==
    pc = "scheduled" => cmdsets = create_cmdsets(jobs)

\* create_cmdsets was passed a list that names two jobs without
\* dependencies and with different commands the other way round than they
\* were made, one of them with a child.
C16_Witness ==
    /\ pc = "scheduled"
    /\ \E a, b \in 1..Len(joblist) :
        /\ a < b
        /\ joblist[a] > joblist[b]
        /\ jobs[joblist[a]].dependencies = <<>>
        /\ jobs[joblist[b]].dependencies = <<>>
        /\ jobs[joblist[a]].command # jobs[joblist[b]].command
        /\ jobs[joblist[a]].children # <<>>

\* --------------------------------------------- claims on the run's end

\* The run has ended: every cmdset was run, or sys.exit was called.
RunEnded == pc \in {"done", "exited"}

\* C19: once a command of the cmdset being run has exited nonzero, every
\* command of that cmdset is still waiting for apply_async, in the task
\* queue, running, or has returned (none is dropped); mp_run_cmdset
\* returns only when all of them have returned, and sys.exit is called
\* only after the pool of the cmdset was joined.
C19_NoCancellation ==
    /\ (pc \in {"dispatch", "join", "returned", "exited"}
            /\ stats[idx + 1].failed > 0) =>
        /\ \A c \in cmdsets[idx + 1] :
            \/ c \in todo
            \/ c \in taskq
            \/ c \in running
            \/ <<idx, c>> \in returned
        /\ pc \in {"returned", "exited"} =>
            \A c \in cmdsets[idx + 1] :
                /\ <<idx, c>> \in dispatched
                /\ <<idx, c>> \in started
                /\ <<idx, c>> \in returned
    /\ exitcode # -1 => (pc = "exited" /\ idx \in joined)

\* The run exited on a cmdset of at least two commands of which one
\* failed: the others ran on and exited 0.
C19_Witness ==
    /\ pc = "exited"
    /\ Cardinality(cmdsets[idx + 1]) >= 2
    /\ stats[idx + 1].failed = 1
    /\ \A c \in cmdsets[idx + 1] : <<idx, c>> \in returned

\* C20: under a fair scheduler, if no child process runs for ever the run
\* ends; if one does, the run never ends; and whenever a child is running
\* the main thread is inside the mp_run_cmdset call of that child's
\* cmdset, before the return of pool.join().
C20_TerminatesIffChildrenExit ==
    /\ []<>(running = {}) => <>RunEnded
    /\ <>[](running # {}) => [](~RunEnded)
    /\ [](running # {} =>
            /\ pc \in {"dispatch", "join"}
            /\ \A c \in running : c \in cmdsets[idx + 1])

\* The run ended after both cmdsets of two files: every child exited.
C20_Witness ==
    /\ pc = "done"
    /\ Len(cmdsets) = 2
    /\ \A k \in 1..2 : \A c \in cmdsets[k] : <<k - 1, c>> \in returned

\* ------------------------------------------------ claims on repeated work

\* How many times the command c was started, one for each pool.
TimesStarted(c) == Cardinality({ p \in started : p[2] = c })

\* Whether every command that has returned so far exited 0.
AllExitedZero == \A k \in 1..Len(stats) : stats[k].failed = 0

\* C21: a worker never starts a command that was started before, in the
\* same pool or an earlier one, so the command of every job is started at
\* most once; and when the run ends with every command having exited 0,
\* the command of every job was started exactly once.
C21_StartedOnce ==
    /\ [][\A c \in running' \ running : ~CmdStarted(c)]_vars
    /\ [](\A j \in 1..Len(jobs) : TimesStarted(jobs[j].command) <= 1)
    /\ []((pc = "done" /\ AllExitedZero) =>
            \A j \in 1..Len(jobs) : TimesStarted(jobs[j].command) = 1)

\* The run on two files of different filestems ended with every command
\* having exited 0: four commands, each started once.
C21_Witness ==
    /\ pc = "done"
    /\ AllExitedZero
    /\ Len(jobs) = 4
    /\ \A j \in 1..Len(jobs) : TimesStarted(jobs[j].command) = 1

\* ------------------------------------------ claims on the graph's fields

\* How many times x occurs in the list s.
Count(s, x) == Cardinality({ i \in 1..Len(s) : s[i] = x })

\* Job b occurs in a.dependencies as many times as a occurs in b.children.
Mirrored ==
    \A a, b \in 1..Len(jobs) :
        Count(jobs[a].dependencies, b) = Count(jobs[b].children, a)

\* The latest two calls were a.add_dependency(b), a.remove_dependency(b).
AddedThenRemoved == lastcall.op = "addremove"

\* C22, as claimed: the dependency and children lists mirror each other,
\* and a.add_dependency(b) followed by a.remove_dependency(b) leaves every
\* list of the graph as it was before the two calls.
C22_AddRemoveRestoresLists ==
    /\ Mirrored
    /\ AddedThenRemoved => jobs = lastcall.before

\* C22, amended: the dependency and children lists mirror each other;
\* a.add_dependency(b) followed by a.remove_dependency(b) leaves every job
\* with the same name, command and submitted flag and every list with the
\* same jobs the same number of times; the lists are as they were before
\* when b was not a dependency of a, and otherwise a.dependencies and
\* b.children are the lists before with the first b, and the first a,
\* moved to the end.
C22_AddRemoveRestoresCounts ==
    /\ Mirrored
    /\ AddedThenRemoved =>
        LET G == lastcall.before
            a == lastcall.a
            b == lastcall.b
        IN  /\ Len(jobs) = Len(G)
            /\ \A j \in 1..Len(jobs) :
                /\ jobs[j].name = G[j].name
                /\ jobs[j].command = G[j].command
                /\ jobs[j].submitted = G[j].submitted
                /\ \A x \in 1..Len(jobs) :
                    /\ Count(jobs[j].dependencies, x)
                        = Count(G[j].dependencies, x)
                    /\ Count(jobs[j].children, x) = Count(G[j].children, x)
                /\ j # a => jobs[j].dependencies = G[j].dependencies
                /\ j # b => jobs[j].children = G[j].children
            /\ Count(G[a].dependencies, b) = 0 => jobs = G
            /\ Count(G[a].dependencies, b) > 0 =>
                /\ Len(jobs[a].dependencies) = Len(G[a].dependencies)
                /\ jobs[a].dependencies[Len(jobs[a].dependencies)] = b
                /\ Len(jobs[b].children) = Len(G[b].children)
                /\ jobs[b].children[Len(jobs[b].children)] = a

\* b was already a dependency of a, ahead of another one: after the add
\* and the remove the lists hold the same jobs in another order.
C22_Witness ==
    /\ AddedThenRemoved
    /\ jobs # lastcall.before
    /\ Count(jobs[lastcall.a].dependencies, lastcall.b) = 1

\* C23: no step of a run but the call of make_blast_jobs changes the job
\* graph: the name, command, dependencies, children and submitted flag of
\* every job stay, through create_cmdsets and every step of every
\* mp_run_cmdset call, what make_blast_jobs made them.
C23_GraphUnchanged ==
    [][jobs' # jobs => (pc = "make_jobs" /\ pc' = "despatch")]_vars

\* A graph of four jobs was scheduled and both its cmdsets were run, and
\* it is the graph make_blast_jobs returned, no job flagged as submitted.
C23_Witness ==
    /\ pc \in {"done", "exited"}
    /\ joined = {0, 1}
    /\ Len(jobs) = 4
    /\ jobs = make_blast_jobs(infiles, OutDir, BLASTP_DEFAULT,
                              BLASTDB_DEFAULT, JobPrefix)
    /\ \A j \in 1..Len(jobs) : ~jobs[j].submitted

=============================================================================
